---- MODULE Spec2Model ----
(***************************************************************************)
(* Model of gtin/validator.py: validation of GTIN-8/12/13/14 codes and     *)
(* generation of check digits.                                             *)
(*                                                                         *)
(* A Python str is a sequence of one-character strings.  A call either     *)
(* returns a value or raises; both outcomes are result records:            *)
(*   [tag |-> "bool", b |-> ...]   a returned bool                         *)
(*   [tag |-> "str",  s |-> ...]   a returned str                          *)
(*   [tag |-> "int",  n |-> ...]   a returned int                          *)
(*   [tag |-> "raise", err |-> "TypeError" | "ValueError"]                 *)
(***************************************************************************)
EXTENDS Integers, Sequences, FiniteSets, TLC

VARIABLES code, fn, out, checked, prev, rel

vars == <<code, fn, out, checked, prev, rel>>

-----------------------------------------------------------------------------
(* Characters and Python values                                            *)

DigitChars == <<"0", "1", "2", "3", "4", "5", "6", "7", "8", "9">>

Digits == {DigitChars[i] : i \in 1..10}

\* The characters input text is drawn from: the decimal digits, the hyphen,
\* the blank (whitespace) and a letter (any other non-digit character).
Chars == Digits \cup {"-", " ", "a"}

IsDigitChar(c) == c \in Digits

DigitVal(c) == (CHOOSE i \in 1..10 : DigitChars[i] = c) - 1

RetBool(b) == [tag |-> "bool", b |-> b]

RetStr(s) == [tag |-> "str", s |-> s]

RetInt(n) == [tag |-> "int", n |-> n]

Raise(e) == [tag |-> "raise", err |-> e]

IsRaise(r) == r.tag = "raise"

\* The arguments a caller can pass: a str, an int, or a value of another
\* type (a float, a list of items).
PyStr(s) == [kind |-> "str", s |-> s]

PyInt(n) == [kind |-> "int", n |-> n]

PyFloat == [kind |-> "float"]

PyList(k) == [kind |-> "list", len |-> k]

-----------------------------------------------------------------------------
(* Python built-ins used by the validator                                  *)

\* str(n) for an int n.
RECURSIVE NatStr(_)
NatStr(n) == IF n < 10 THEN <<DigitChars[n + 1]>>
             ELSE Append(NatStr(n \div 10), DigitChars[(n % 10) + 1])

IntStr(n) == IF n < 0 THEN <<"-">> \o NatStr(0 - n) ELSE NatStr(n)

\* s.replace("-", "")
RECURSIVE RemoveHyphens(_)
RemoveHyphens(s) ==
    IF s = <<>> THEN <<>>
    ELSE IF Head(s) = "-" THEN RemoveHyphens(Tail(s))
    ELSE <<Head(s)>> \o RemoveHyphens(Tail(s))

\* s.lstrip(), s.rstrip(), s.strip()
RECURSIVE LStrip(_)
LStrip(s) == IF s # <<>> /\ Head(s) = " " THEN LStrip(Tail(s)) ELSE s

RECURSIVE RStrip(_)
RStrip(s) == IF s # <<>> /\ s[Len(s)] = " "
             THEN RStrip(SubSeq(s, 1, Len(s) - 1)) ELSE s

Strip(s) == RStrip(LStrip(s))

Zeros(k) == [i \in 1..k |-> "0"]

\* s.zfill(width): pads on the left with "0", after a leading sign if any;
\* a string of width characters or more is returned unchanged.
ZFill(s, width) ==
    IF Len(s) >= width THEN s
    ELSE IF s # <<>> /\ Head(s) \in {"+", "-"}
         THEN <<Head(s)>> \o Zeros(width - Len(s)) \o Tail(s)
         ELSE Zeros(width - Len(s)) \o s

\* s.isdigit()
IsDigit(s) == s # <<>> /\ \A i \in 1..Len(s) : IsDigitChar(s[i])

\* The value of a sequence of decimal digits.
RECURSIVE DigitsVal(_)
DigitsVal(s) == IF s = <<>> THEN 0
                ELSE 10 * DigitsVal(SubSeq(s, 1, Len(s) - 1)) + DigitVal(s[Len(s)])

\* int(s) for a str s: surrounding whitespace is ignored, one sign is
\* allowed, and what remains must be decimal digits; ValueError otherwise.
ParseInt(s) ==
    LET t == Strip(s)
        signed == t # <<>> /\ Head(t) \in {"+", "-"}
        body == IF signed THEN Tail(t) ELSE t
    IN  IF ~IsDigit(body) THEN Raise("ValueError")
        ELSE IF signed /\ Head(t) = "-" THEN RetInt(0 - DigitsVal(body))
        ELSE RetInt(DigitsVal(body))

\* len(x): defined for a str and a list, TypeError for an int or a float.
PyLen(x) ==
    IF x.kind = "str" THEN RetInt(Len(x.s))
    ELSE IF x.kind = "list" THEN RetInt(x.len)
    ELSE Raise("TypeError")

\* s[a:b] with 0 <= a <= b (Python slice, end clipped to the length).
Slice(s, a, b) == SubSeq(s, a + 1, IF b < Len(s) THEN b ELSE Len(s))

-----------------------------------------------------------------------------
(* gtin/validator.py                                                       *)

FillDefault == 14

FillCheckDigit == 13

\* _clean with the zfill of the str branch left out.
_clean_unpadded(c, fill) ==
    IF c.kind = "int" THEN RetStr(ZFill(IntStr(c.n), fill))
    ELSE IF c.kind = "str" THEN RetStr(Strip(RemoveHyphens(c.s)))
    ELSE Raise("TypeError")

\* _clean(code, fill)
_clean(c, fill) ==
    IF c.kind = "int" THEN RetStr(ZFill(IntStr(c.n), fill))
    ELSE IF c.kind = "str" THEN RetStr(ZFill(Strip(RemoveHyphens(c.s)), fill))
    ELSE Raise("TypeError")

\* The weights with the test on i inverted.
Weight_inverted(i) == IF i % 2 = 1 THEN 3 ELSE 1

\* The weights with the test on i taken modulo 3.
Weight_mod3(i) == IF i % 3 = 1 THEN 1 ELSE 3

\* The weight the loop of _gtin_checksum gives the character at index i.
Weight(i) == IF i % 2 = 1 THEN 1 ELSE 3

\* total after the loop of _gtin_checksum has run over the first n characters.
RECURSIVE ChecksumTotal(_, _)
ChecksumTotal(s, n) ==
    IF n = 0 THEN 0
    ELSE ChecksumTotal(s, n - 1) + Weight(n - 1) * DigitVal(s[n])

\* The check digit without the outer "% 10".
CheckDigitOf_unwrapped(total) == 10 - (total % 10)

\* check_digit = (10 - (total % 10)) % 10
CheckDigitOf(total) == (10 - (total % 10)) % 10

\* _gtin_checksum(code) for a str code: int(c) raises on a non-digit.
_gtin_checksum(s) ==
    IF \E i \in 1..Len(s) : ParseInt(<<s[i]>>).tag = "raise"
    THEN Raise("ValueError")
    ELSE RetInt(CheckDigitOf(ChecksumTotal(s, Len(s))))

\* _is_gtin_checksum_valid with the checksum taken over the whole code.
_is_gtin_checksum_valid_whole(s) ==
    LET last == ParseInt(<<s[Len(s)]>>)
        sum == _gtin_checksum(s)
    IN  IF IsRaise(last) THEN last
        ELSE IF IsRaise(sum) THEN sum
        ELSE RetBool(last.n = sum.n)

\* _is_gtin_checksum_valid(code), called with a non-empty str of digits.
_is_gtin_checksum_valid(s) ==
    LET last == ParseInt(<<s[Len(s)]>>)
        sum == _gtin_checksum(SubSeq(s, 1, Len(s) - 1))
    IN  IF IsRaise(last) THEN last
        ELSE IF IsRaise(sum) THEN sum
        ELSE RetBool(last.n = sum.n)

ValidLengths == {8, 12, 13, 14, 18}

\* _is_valid_code(code)
_is_valid_code(s) ==
    IF ~IsDigit(s) THEN RetBool(FALSE)
    ELSE IF Len(s) \notin ValidLengths THEN RetBool(FALSE)
    ELSE _is_gtin_checksum_valid(s)

ReservedPrefixes ==
    {381, 382, 384, 386, 388, 390, 391, 392, 393, 394, 395, 396, 397, 398,
     399, 441, 442, 443, 444, 445, 446, 447, 448, 449, 472, 473, 510, 511,
     512, 513, 514, 515, 516, 517, 518, 519, 522, 523, 524, 525, 526, 527,
     532, 533, 534, 536, 537, 538, 550, 551, 552, 553, 554, 555, 556, 557,
     558, 559, 561, 562, 563, 564, 565, 566, 567, 568, 580, 581, 582, 583,
     584, 585, 586, 587, 588, 589, 591, 592, 593, 595, 596, 597, 598, 602,
     605, 606, 607, 610, 612, 614, 617, 630, 631, 632, 633, 634, 635, 636,
     637, 638, 639, 650, 651, 652, 653, 654, 655, 656, 657, 658, 659, 660,
     661, 662, 663, 664, 665, 666, 667, 668, 669, 670, 671, 672, 673, 674,
     675, 676, 677, 678, 679, 680, 681, 682, 683, 684, 685, 686, 687, 688,
     689, 710, 711, 712, 713, 714, 715, 716, 717, 718, 719, 720, 721, 722,
     723, 724, 725, 726, 727, 728, 747, 748, 749, 751, 752, 753, 756, 757,
     758, 772, 774, 776, 781, 782, 783, 785, 787, 788, 791, 792, 793, 794,
     795, 796, 797, 798, 799, 851, 852, 853, 854, 855, 856, 857, 861, 862,
     863, 864, 866, 881, 882, 883, 886, 887, 889, 891, 892, 894, 895, 897,
     898, 920, 921, 922, 923, 924, 925, 926, 927, 928, 929}

\* The length-8 branch of _is_valid_gtin_prefix.
Prefix8Allowed(p) ==
    IF 0 <= p /\ p <= 99 THEN FALSE
    ELSE IF 200 <= p /\ p <= 299 THEN FALSE
    ELSE TRUE

\* The length-12/13/14 branch of _is_valid_gtin_prefix.
PrefixLongAllowed(n1, p) ==
    IF n1 > 8 THEN FALSE
    ELSE IF 20 <= p /\ p <= 29 THEN FALSE
    ELSE IF 40 <= p /\ p <= 59 THEN FALSE
    ELSE IF 200 <= p /\ p <= 299 THEN FALSE
    ELSE IF 960 <= p /\ p <= 969 THEN FALSE
    ELSE IF 980 <= p /\ p <= 999 THEN FALSE
    ELSE IF p \in ReservedPrefixes THEN FALSE
    ELSE TRUE

\* The length _is_valid_gtin_prefix dispatches on.
PrefixLength(c) == PyLen(c)

\* The lengths of the second branch with 18 among them.
LongLengths_with18 == {12, 13, 14, 18}

LongLengths == {12, 13, 14}

\* _is_valid_gtin_prefix(code)
_is_valid_gtin_prefix(c) ==
    LET length == PrefixLength(c)
        cleaned == _clean(c, FillDefault)
    IN  IF IsRaise(length) THEN length
        ELSE IF IsRaise(cleaned) THEN cleaned
        ELSE IF length.n = 8 THEN
            LET p == ParseInt(Slice(c.s, 0, 3))
            IN  IF IsRaise(p) THEN p ELSE RetBool(Prefix8Allowed(p.n))
        ELSE IF length.n \in LongLengths THEN
            LET n1 == ParseInt(Slice(cleaned.s, 0, 1))
                p == ParseInt(Slice(cleaned.s, 1, 4))
            IN  IF IsRaise(n1) THEN n1
                ELSE IF IsRaise(p) THEN p
                ELSE RetBool(PrefixLongAllowed(n1.n, p.n))
        ELSE RetBool(FALSE)

\* What is_valid_GTIN hands to _is_valid_code, when it gets that far.
NotChecked == [reached |-> FALSE]

CheckedCode(c) ==
    LET ok == _is_valid_gtin_prefix(c)
        cleaned == _clean(c, FillDefault)
    IN  IF IsRaise(ok) \/ ~ok.b \/ IsRaise(cleaned) THEN NotChecked
        ELSE [reached |-> TRUE, s |-> cleaned.s]

\* is_valid_GTIN(code)
is_valid_GTIN(c) ==
    LET ok == _is_valid_gtin_prefix(c)
    IN  IF IsRaise(ok) THEN ok
        ELSE IF ok.b THEN
            LET cleaned == _clean(c, FillDefault)
            IN  IF IsRaise(cleaned) THEN cleaned ELSE _is_valid_code(cleaned.s)
        ELSE RetBool(FALSE)

\* add_check_digit(code)
add_check_digit(c) ==
    LET cleaned == _clean(c, FillCheckDigit)
    IN  IF IsRaise(cleaned) THEN cleaned
        ELSE LET sum == _gtin_checksum(cleaned.s)
             IN  IF IsRaise(sum) THEN sum
                 ELSE RetStr(cleaned.s \o IntStr(sum.n))

-----------------------------------------------------------------------------
(* The inputs                                                              *)

\* The longest text a caller passes.
MaxLen == 18

\* The largest magnitude of the small integers a caller passes.
MaxInt == 12

\* The GTIN-13 of the documentation, 4006381333931.
Sample == <<"4", "0", "0", "6", "3", "8", "1", "3", "3", "3", "9", "3", "1">>

\* The n digits that follow the first two digits of Sample, cyclically.
Filler(n) == [i \in 1..n |-> Sample[((i + 1) % Len(Sample)) + 1]]

\* Text of length n: the first two characters and the last one are free, the
\* characters between them are the digits of Sample.
TextOfLen(n) ==
    IF n = 0 THEN {<<>>}
    ELSE IF n = 1 THEN {<<a>> : a \in Chars}
    ELSE IF n = 2 THEN {<<a, b>> : a \in Chars, b \in Chars}
    ELSE {<<a, b>> \o Filler(n - 3) \o <<z>> : a \in Chars, b \in Chars, z \in Chars}

Texts == UNION {TextOfLen(n) : n \in 0..MaxLen}

\* Integers: the small ones of either sign, and the 8-digit ones.
SampleInts == {12345670, 40063813, 29999995}

Ints == ((0 - MaxInt)..MaxInt) \cup SampleInts

Inputs == {PyStr(s) : s \in Texts} \cup {PyInt(n) : n \in Ints}
          \cup {PyFloat, PyList(8)}

NoCall == [fn |-> "none"]

\* The largest number of "0" characters put in front of a payload.
MaxPad == 3

-----------------------------------------------------------------------------
(* The calls.  code is the argument of the call fn and out its outcome;    *)
(* checked is what the call handed to _is_valid_code.  A second call is    *)
(* made on an argument derived from the first (rel says how), and prev     *)
(* keeps the first call.                                                   *)

Init ==
    /\ code \in Inputs
    /\ fn = "idle"
    /\ out = [tag |-> "none"]
    /\ checked = NotChecked
    /\ prev = NoCall
    /\ rel = "input"

ThisCall == [fn |-> fn, code |-> code, out |-> out]

\* is_valid_GTIN(c)
Validate(c) ==
    /\ code' = c
    /\ fn' = "is_valid_GTIN"
    /\ out' = is_valid_GTIN(c)
    /\ checked' = CheckedCode(c)

\* _gtin_checksum(s)
Checksum(s) ==
    /\ code' = PyStr(s)
    /\ fn' = "_gtin_checksum"
    /\ out' = _gtin_checksum(s)
    /\ checked' = NotChecked

\* A caller validates the input.
CallIsValid ==
    /\ fn = "idle"
    /\ Validate(code)
    /\ UNCHANGED <<prev, rel>>

\* A caller asks for the input with its check digit.
CallAddCheckDigit ==
    /\ fn = "idle"
    /\ fn' = "add_check_digit"
    /\ out' = add_check_digit(code)
    /\ UNCHANGED <<code, checked, prev, rel>>

\* The checksum of a text input is computed.
CallChecksum ==
    /\ fn = "idle"
    /\ code.kind = "str"
    /\ Checksum(code.s)
    /\ UNCHANGED <<prev, rel>>

\* The code add_check_digit returned is validated.
ValidateGenerated ==
    /\ fn = "add_check_digit"
    /\ rel = "input"
    /\ out.tag = "str"
    /\ Validate(PyStr(out.s))
    /\ prev' = ThisCall
    /\ rel' = "generated"

\* A code found valid is validated again with another last digit.
ValidateAltered ==
    /\ fn = "is_valid_GTIN"
    /\ rel = "input"
    /\ code.kind = "str"
    /\ out = RetBool(TRUE)
    /\ \E d \in Digits \ {code.s[Len(code.s)]} :
          Validate(PyStr(SubSeq(code.s, 1, Len(code.s) - 1) \o <<d>>))
    /\ prev' = ThisCall
    /\ rel' = "altered"

\* A text with hyphens or surrounding blanks is validated again without them.
ValidateCleaned ==
    /\ fn = "is_valid_GTIN"
    /\ rel = "input"
    /\ code.kind = "str"
    /\ Strip(RemoveHyphens(code.s)) # code.s
    /\ Validate(PyStr(Strip(RemoveHyphens(code.s))))
    /\ prev' = ThisCall
    /\ rel' = "cleaned"

\* An integer is validated again as its decimal text.
ValidateAsText ==
    /\ fn = "is_valid_GTIN"
    /\ rel = "input"
    /\ code.kind = "int"
    /\ Validate(PyStr(IntStr(code.n)))
    /\ prev' = ThisCall
    /\ rel' = "as_text"

\* The checksum of a digit sequence is computed again with zeros in front.
ChecksumPadded ==
    /\ fn = "_gtin_checksum"
    /\ rel = "input"
    /\ out.tag = "int"
    /\ \E k \in 1..MaxPad : Checksum(Zeros(k) \o code.s)
    /\ prev' = ThisCall
    /\ rel' = "padded"

Next ==
    \/ CallIsValid
    \/ CallAddCheckDigit
    \/ CallChecksum
    \/ ValidateGenerated
    \/ ValidateAltered
    \/ ValidateCleaned
    \/ ValidateAsText
    \/ ChecksumPadded

Spec == Init /\ [][Next]_vars

-----------------------------------------------------------------------------
(* Properties                                                              *)

\* The lengths of the GTIN classes the prefix validator knows.
GtinLengths == {8, 12, 13, 14}

IsText(c) == c.kind = "str"

IsDigitText(c) == c.kind = "str" /\ IsDigit(c.s)

\* The GS1 check digit of a payload, as GS1 defines it: the weights 3, 1,
\* 3, ... are given from the right, the last payload digit having weight 3.
GS1Weight(p, i) == IF (Len(p) - i) % 2 = 0 THEN 3 ELSE 1

RECURSIVE GS1Total(_, _)
GS1Total(p, n) ==
    IF n = 0 THEN 0 ELSE GS1Total(p, n - 1) + GS1Weight(p, n) * DigitVal(p[n])

GS1CheckDigit(p) == DigitChars[((10 - (GS1Total(p, Len(p)) % 10)) % 10) + 1]

Sample12 == SubSeq(Sample, 1, 12)

\* How many characters the second call's argument has more than the first's.
Added == Len(code.s) - Len(prev.code.s)

\* C1: is_valid_GTIN ends with a boolean for every text input, never with
\* an error.
C1_TextNeverRaises ==
    (fn = "is_valid_GTIN" /\ IsText(code)) => out.tag = "bool"

\* C2: is_valid_GTIN of a non-negative integer has the same outcome as
\* is_valid_GTIN of its decimal text.
C2_IntSameAsText ==
    (rel = "as_text" /\ prev.code.n >= 0) => out = prev.out

\* C3: is_valid_GTIN of a text has the same outcome as is_valid_GTIN of the
\* text with its hyphens removed and its surrounding blanks trimmed.
C3_HyphensAndBlanksIgnored ==
    rel = "cleaned" => out = prev.out

\* C4: add_check_digit of a 12-digit text p returns exactly p followed by
\* its GS1 check digit (13 characters).
C4_PayloadThenDigit ==
    (fn = "add_check_digit" /\ rel = "input" /\ IsDigitText(code)
        /\ Len(code.s) = 12)
    => out = RetStr(code.s \o <<GS1CheckDigit(code.s)>>)

\* C4 (amended): add_check_digit of a 12-digit text p returns "0", then p,
\* then the GS1 check digit of p (14 characters).
C4_ZeroPayloadThenDigit ==
    (fn = "add_check_digit" /\ rel = "input" /\ IsDigitText(code)
        /\ Len(code.s) = 12)
    => out = RetStr(<<"0">> \o code.s \o <<GS1CheckDigit(code.s)>>)

C4_Witness ==
    /\ fn = "add_check_digit"
    /\ code = PyStr(Sample12)
    /\ out = RetStr(<<"0">> \o Sample)

C6_LastDigitSensitive ==
    (rel = "altered" /\ IsDigitText(prev.code)
        /\ Len(prev.code.s) \in GtinLengths /\ prev.out = RetBool(TRUE))
    => out = RetBool(FALSE)

C6_Witness ==
    /\ rel = "altered"
    /\ prev.code = PyStr(Sample)
    /\ prev.out = RetBool(TRUE)
    /\ code.s[13] = "7"
    /\ out = RetBool(FALSE)

\* C7: the checksum of a digit sequence with any number of zeros in front of
\* it is the checksum of the digit sequence.
C7_PaddingInvariant ==
    rel = "padded" => out = prev.out

\* C7 (amended): the checksum of a digit sequence with an even number of
\* zeros in front of it is the checksum of the digit sequence.
C7_EvenPaddingInvariant ==
    (rel = "padded" /\ Added % 2 = 0) => out = prev.out

C7_Witness ==
    /\ rel = "padded"
    /\ prev.code = PyStr(Sample12)
    /\ Added = 2
    /\ out = RetInt(7)
    /\ prev.out = RetInt(7)

\* C8: add_check_digit returns a string for every text and every integer.
C8_AddCheckDigitNeverRaises ==
    (fn = "add_check_digit" /\ code.kind \in {"str", "int"}) => out.tag = "str"

\* C9: is_valid_GTIN of a text whose length is not 8, 12, 13 or 14 is false,
\* and the structural check is not reached.
C9_OtherLengthsRejected ==
    (fn = "is_valid_GTIN" /\ IsText(code) /\ Len(code.s) \notin GtinLengths)
    => (out = RetBool(FALSE) /\ ~checked.reached)

\* A text of 18 digits with a correct check digit, rejected.
C9_Witness ==
    /\ fn = "is_valid_GTIN"
    /\ IsDigitText(code)
    /\ Len(code.s) = 18
    /\ _is_valid_code(code.s) = RetBool(TRUE)
    /\ out = RetBool(FALSE)

\* C10: the code is_valid_GTIN hands to _is_valid_code for a text input has
\* exactly 14 characters, a length _is_valid_code accepts, so that the
\* checksum is verified over 13 characters.
C10_CheckedCodeHas14 ==
    (fn = "is_valid_GTIN" /\ IsText(code) /\ checked.reached)
    => /\ Len(code.s) \in GtinLengths
       /\ Len(checked.s) = FillDefault
       /\ Len(checked.s) \in ValidLengths
       /\ Len(SubSeq(checked.s, 1, Len(checked.s) - 1)) = FillCheckDigit

\* A text of 8 characters, one of them a hyphen, handed on with 14.
C10_Witness ==
    /\ fn = "is_valid_GTIN"
    /\ IsText(code)
    /\ Len(code.s) = 8
    /\ ~IsDigit(code.s)
    /\ checked.reached
    /\ Len(checked.s) = 14

====
